---- MODULE Spec2Model ----
(***************************************************************************)
(* A model of package csp (novrin/csp): the keyword-source registry, the   *)
(* token normaliser canon/canons and the serialiser Policy.                *)
(*                                                                         *)
(* A Go string is modelled as the sequence of its characters, each         *)
(* character a one-character TLA+ string, so that trimming, lower-casing,  *)
(* quoting, joining and formatting are computed and not assumed.           *)
(***************************************************************************)
EXTENDS Integers, Sequences, FiniteSets, TLC

(***************************************************************************)
(* Bounds of the model.                                                    *)
(***************************************************************************)
\* The caller's Directives value holds at most this many tokens in all
\* (a non-empty scalar and a non-nil empty slice count as one).
MaxTokens == 2
\* Longest list handed to canons on its own.
MaxLen == 2
\* Longest run of white space put before or after a word handed to canon.
MaxPad == 1

(***************************************************************************)
(* Characters and the strings package.                                     *)
(***************************************************************************)
EmptyString == << >>

\* unicode.IsSpace on the white space used by the inputs of this model.
IsSpace(c) == c \in {" ", "\t", "\n", "\r", "\f"}

UpperLetters ==
    <<"A", "B", "C", "D", "E", "F", "G", "H", "I", "J", "K", "L", "M",
      "N", "O", "P", "Q", "R", "S", "T", "U", "V", "W", "X", "Y", "Z">>

LowerLetters ==
    <<"a", "b", "c", "d", "e", "f", "g", "h", "i", "j", "k", "l", "m",
      "n", "o", "p", "q", "r", "s", "t", "u", "v", "w", "x", "y", "z">>

\* unicode.ToLower of one character.
LowerChar(c) ==
    IF \E i \in 1..Len(UpperLetters) : UpperLetters[i] = c
    THEN LowerLetters[CHOOSE i \in 1..Len(UpperLetters) : UpperLetters[i] = c]
    ELSE c

\* A version of ToLower that leaves the letters as they are.
ToLowerIdentity(s) == s

\* strings.ToLower
ToLower(s) == [i \in 1..Len(s) |-> LowerChar(s[i])]

RECURSIVE TrimLeft(_)
\* strings.TrimSpace, the leading half: drop white space at the front.
TrimLeft(s) ==
    IF s # << >> /\ IsSpace(Head(s)) THEN TrimLeft(Tail(s)) ELSE s

RECURSIVE TrimRight(_)
\* strings.TrimSpace, the trailing half: drop white space at the back.
TrimRight(s) ==
    IF s # << >> /\ IsSpace(s[Len(s)])
    THEN TrimRight(SubSeq(s, 1, Len(s) - 1))
    ELSE s

\* A version of TrimSpace that trims nothing.
TrimSpaceNothing(s) == s

\* strings.TrimSpace
TrimSpace(s) == TrimRight(TrimLeft(s))

RECURSIVE Join(_, _)
\* strings.Join(elems, sep)
Join(elems, sep) ==
    IF elems = << >> THEN EmptyString
    ELSE IF Len(elems) = 1 THEN elems[1]
    ELSE elems[1] \o sep \o Join(Tail(elems), sep)

\* Sprintf with dFormat = "%s %s;", the space after the semicolon lost.
SprintfNoSpace(dName, dVal) == dName \o <<" ">> \o dVal \o <<";">>

\* fmt.Sprintf(dFormat, dName, dVal) with dFormat = "%s %s; "
Sprintf(dName, dVal) == dName \o <<" ">> \o dVal \o <<";", " ">>

(***************************************************************************)
(* Package constants and tables.                                           *)
(***************************************************************************)
\* WebRTCAllow = "'allow'"
WebRTCAllow ==
    <<"'", "a", "l", "l", "o", "w", "'">>

\* WebRTCBlock = "'block'"
WebRTCBlock ==
    <<"'", "b", "l", "o", "c", "k", "'">>

\* SourceNone = "'none'"
SourceNone ==
    <<"'", "n", "o", "n", "e", "'">>

\* SourceSelf = "'self'"
SourceSelf ==
    <<"'", "s", "e", "l", "f", "'">>

\* SourceUnsafeInline = "'unsafe-inline'"
SourceUnsafeInline ==
    <<"'", "u", "n", "s", "a", "f", "e", "-", "i", "n", "l", "i", "n", "e", "'">>

\* SourceUnsafeEval = "'unsafe-eval'"
SourceUnsafeEval ==
    <<"'", "u", "n", "s", "a", "f", "e", "-", "e", "v", "a", "l", "'">>

\* SourceStrictDynamic = "'strict-dynamic'"
SourceStrictDynamic ==
    <<"'", "s", "t", "r", "i", "c", "t", "-", "d", "y", "n", "a", "m", "i", "c", "'">>

\* SourceUnsafeHashes = "'unsafe-hashes'"
SourceUnsafeHashes ==
    <<"'", "u", "n", "s", "a", "f", "e", "-", "h", "a", "s", "h", "e", "s", "'">>

\* SourceReportSample = "'report-sample'"
SourceReportSample ==
    <<"'", "r", "e", "p", "o", "r", "t", "-", "s", "a", "m", "p", "l", "e", "'">>

\* SourceUnsafeAllowRedirects = "'unsafe-allow-redirects'"
SourceUnsafeAllowRedirects ==
    <<"'", "u", "n", "s", "a", "f", "e", "-", "a", "l", "l", "o", "w", "-", "r", "e", "d", "i", "r", "e", "c", "t", "s", "'">>

\* SourceWasmUnsafeEval = "'wasm-unsafe-eval'"
SourceWasmUnsafeEval ==
    <<"'", "w", "a", "s", "m", "-", "u", "n", "s", "a", "f", "e", "-", "e", "v", "a", "l", "'">>

\* The initial contents of the package variable CName.
CNameTable ==
    [ BaseURI |-> <<"b", "a", "s", "e", "-", "u", "r", "i">>,
      ChildSrc |-> <<"c", "h", "i", "l", "d", "-", "s", "r", "c">>,
      ConnectSrc |-> <<"c", "o", "n", "n", "e", "c", "t", "-", "s", "r", "c">>,
      DefaultSrc |-> <<"d", "e", "f", "a", "u", "l", "t", "-", "s", "r", "c">>,
      FontSrc |-> <<"f", "o", "n", "t", "-", "s", "r", "c">>,
      FormAction |-> <<"f", "o", "r", "m", "-", "a", "c", "t", "i", "o", "n">>,
      FrameAncestors |-> <<"f", "r", "a", "m", "e", "-", "a", "n", "c", "e", "s", "t", "o", "r", "s">>,
      FrameSrc |-> <<"f", "r", "a", "m", "e", "-", "s", "r", "c">>,
      ImgSrc |-> <<"i", "m", "g", "-", "s", "r", "c">>,
      ManifestSrc |-> <<"m", "a", "n", "i", "f", "e", "s", "t", "-", "s", "r", "c">>,
      MediaSrc |-> <<"m", "e", "d", "i", "a", "-", "s", "r", "c">>,
      ObjectSrc |-> <<"o", "b", "j", "e", "c", "t", "-", "s", "r", "c">>,
      ReportTo |-> <<"r", "e", "p", "o", "r", "t", "-", "t", "o">>,
      Sandbox |-> <<"s", "a", "n", "d", "b", "o", "x">>,
      ScriptSrc |-> <<"s", "c", "r", "i", "p", "t", "-", "s", "r", "c">>,
      ScriptSrcAttr |-> <<"s", "c", "r", "i", "p", "t", "-", "s", "r", "c", "-", "a", "t", "t", "r">>,
      ScriptSrcElem |-> <<"s", "c", "r", "i", "p", "t", "-", "s", "r", "c", "-", "e", "l", "e", "m">>,
      StyleSrc |-> <<"s", "t", "y", "l", "e", "-", "s", "r", "c">>,
      StyleSrcAttr |-> <<"s", "t", "y", "l", "e", "-", "s", "r", "c", "-", "a", "t", "t", "r">>,
      StyleSrcElem |-> <<"s", "t", "y", "l", "e", "-", "s", "r", "c", "-", "e", "l", "e", "m">>,
      WebRTC |-> <<"w", "e", "b", "r", "t", "c">>,
      WorkerSrc |-> <<"w", "o", "r", "k", "e", "r", "-", "s", "r", "c">> ]

\* The fields enumerated with DefaultSrc and StyleSrc exchanged.
FieldNamesSwapped ==
    << "BaseURI",
       "ChildSrc",
       "ConnectSrc",
       "StyleSrc",
       "FontSrc",
       "FormAction",
       "FrameAncestors",
       "FrameSrc",
       "ImgSrc",
       "ManifestSrc",
       "MediaSrc",
       "ObjectSrc",
       "ReportTo",
       "Sandbox",
       "ScriptSrc",
       "ScriptSrcAttr",
       "ScriptSrcElem",
       "DefaultSrc",
       "StyleSrcAttr",
       "StyleSrcElem",
       "WebRTC",
       "WorkerSrc" >>

\* The fields of struct Directives in declaration order, as reflection
\* enumerates them: val.Type().Field(i).Name for i = 0 .. NumField()-1.
FieldNames ==
    << "BaseURI",
       "ChildSrc",
       "ConnectSrc",
       "DefaultSrc",
       "FontSrc",
       "FormAction",
       "FrameAncestors",
       "FrameSrc",
       "ImgSrc",
       "ManifestSrc",
       "MediaSrc",
       "ObjectSrc",
       "ReportTo",
       "Sandbox",
       "ScriptSrc",
       "ScriptSrcAttr",
       "ScriptSrcElem",
       "StyleSrc",
       "StyleSrcAttr",
       "StyleSrcElem",
       "WebRTC",
       "WorkerSrc" >>

\* The fields declared `string`; every other field is declared `[]string`.
StringFields ==
    {"ReportTo", "Sandbox", "WebRTC"}

SliceFields == {FieldNames[i] : i \in 1..Len(FieldNames)} \ StringFields

\* field.Kind()
Kind(name) == IF name \in StringFields THEN "String" ELSE "Slice"

\* A map lookup m[k]: the zero value "" when the key is absent.
Lookup(m, k) == IF k \in DOMAIN m THEN m[k] ELSE EmptyString

(***************************************************************************)
(* IsKeywordSource, canon, canons.                                         *)
(***************************************************************************)
\* The local slice `sources` of IsKeywordSource.
sources ==
    << SourceNone, SourceSelf, SourceUnsafeInline, SourceUnsafeEval,
       SourceStrictDynamic, SourceUnsafeHashes, SourceReportSample,
       SourceUnsafeAllowRedirects, SourceWasmUnsafeEval,
       WebRTCAllow, WebRTCBlock >>

\* slices.Contains(s, v)
Contains(s, v) == \E i \in 1..Len(s) : s[i] = v

\* IsKeywordSource comparing without regard to letter case.
IsKeywordSourceFold(s) == Contains(sources, ToLower(s))

IsKeywordSource(s) == Contains(sources, s)

\* canon without the TrimSpace.
canonUntrimmed(s) ==
    LET c  == s
        kw == <<"'">> \o ToLower(c) \o <<"'">>
    IN  IF IsKeywordSource(kw) THEN kw ELSE c

\* canon testing the untrimmed s for a keyword.
canonLowerUntrimmed(s) ==
    LET c  == TrimSpace(s)
        kw == <<"'">> \o ToLower(s) \o <<"'">>
    IN  IF IsKeywordSource(kw) THEN kw ELSE c

\* canon returning every token in lower case.
canonLowerPlain(s) ==
    LET c  == TrimSpace(s)
        kw == <<"'">> \o ToLower(c) \o <<"'">>
    IN  IF IsKeywordSource(kw) THEN kw ELSE ToLower(c)

canon(s) ==
    LET c  == TrimSpace(s)
        kw == <<"'">> \o ToLower(c) \o <<"'">>
    IN  IF IsKeywordSource(kw) THEN kw ELSE c

\* make([]string, n): n zero values.
Make(n) == [i \in 1..n |-> EmptyString]

RECURSIVE canonsLoop(_, _)
\* The loop of canons over i; fr.ss is the argument's backing array and
\* fr.cs the freshly made result, the only array the loop writes.
canonsLoop(fr, i) ==
    IF i > Len(fr.ss) THEN fr
    ELSE canonsLoop([fr EXCEPT !.cs[i] = canon(fr.ss[i])], i + 1)

\* canons leaving out the tokens that normalise to "".
canonsSkipEmpty(ss) ==
    LET fr == canonsLoop([ss |-> ss, cs |-> Make(Len(ss))], 1)
    IN  [fr EXCEPT !.cs = SelectSeq(fr.cs, LAMBDA c : c # EmptyString)]

RECURSIVE canonsInPlaceLoop(_, _)
canonsInPlaceLoop(fr, i) ==
    IF i > Len(fr.ss) THEN fr
    ELSE canonsInPlaceLoop([fr EXCEPT !.cs[i] = canon(fr.ss[i]),
                                      !.ss[i] = canon(fr.ss[i])], i + 1)

\* canons normalising in place: cs := ss[:0:len(ss)] shares ss's array.
canonsInPlace(ss) == canonsInPlaceLoop([ss |-> ss, cs |-> ss], 1)

\* canons(ss): .cs is the value returned, .ss the argument's backing array
\* as the call leaves it.
canons(ss) == canonsLoop([ss |-> ss, cs |-> Make(Len(ss))], 1)

(***************************************************************************)
(* Directives and Policy.                                                  *)
(***************************************************************************)
\* A []string value: whether the slice is nil, and its backing array (the
\* code never reslices, so len(slice) is the array's length).
NilSlice == [nil |-> TRUE, arr |-> << >>]

SliceOf(list) == [nil |-> FALSE, arr |-> list]

\* The zero value Directives{}.
ZeroDirectives ==
    [name \in SliceFields \cup StringFields |->
        IF name \in StringFields THEN EmptyString ELSE NilSlice]

\* One iteration of the loop of Policy, on field number i (1-based) of the
\* parameter d: the arguments of the policy.WriteString calls the iteration
\* makes, in order (none or one).
PolicyField(d, cn, i) ==
    LET name  == FieldNames[i]
        dName == Lookup(cn, name)
    IN  IF Kind(name) = "Slice"
        THEN IF Len(d[name].arr) > 0
             THEN <<Sprintf(dName, Join(canons(d[name].arr).cs, <<" ">>))>>
             ELSE << >>
        ELSE IF canon(d[name]) # EmptyString
             THEN <<Sprintf(dName, canon(d[name]))>>
             ELSE << >>

\* The same iteration's effect on the memory it shares with the caller.
\* The parameter is a copy of the caller's struct, so only the backing
\* arrays of its slices are shared: the backing array of field number i as
\* the iteration leaves it.
PolicyFieldArray(d, i) ==
    IF Len(d[FieldNames[i]].arr) > 0
    THEN canons(d[FieldNames[i]].arr).ss
    ELSE d[FieldNames[i]].arr

RECURSIVE PolicyLoop(_, _, _)
\* for i := 0; i < val.NumField(); i++ { ... }, with i counted from 1: the
\* arguments of the WriteString calls of iterations i, i+1, ..., in order.
\* An iteration reads its own field only and the builder is append-only,
\* so the iterations are computed one by one and their writes put in order.
PolicyLoop(d, cn, i) ==
    IF i > Len(FieldNames) THEN << >>
    ELSE PolicyField(d, cn, i) \o PolicyLoop(d, cn, i + 1)

RECURSIVE String(_)
\* policy.String(): the strings written to the builder, concatenated.
String(ws) == IF ws = << >> THEN EmptyString ELSE Head(ws) \o String(Tail(ws))

\* return strings.TrimSpace(policy.String()), ws being the strings written
\* to the builder.
PolicyReturn(ws) == TrimSpace(String(ws))

\* Policy(d), run against the table cn: the string returned.
Policy(d, cn) == PolicyReturn(PolicyLoop(d, cn, 1))

\* The local slice `self` of Basic and of BasicTight.
self == <<SourceSelf>>

\* The Directives literal of Basic; its three fields share the slice self.
BasicDirectives ==
    [ZeroDirectives EXCEPT !["DefaultSrc"]     = SliceOf(self),
                           !["FormAction"]     = SliceOf(self),
                           !["FrameAncestors"] = SliceOf(self)]

\* The Directives literal of BasicTight.
BasicTightDirectives ==
    [ZeroDirectives EXCEPT !["DefaultSrc"]     = SliceOf(<<SourceNone>>),
                           !["ConnectSrc"]     = SliceOf(self),
                           !["FormAction"]     = SliceOf(self),
                           !["FrameAncestors"] = SliceOf(self),
                           !["ImgSrc"]         = SliceOf(self),
                           !["ScriptSrc"]      = SliceOf(self),
                           !["StyleSrc"]       = SliceOf(self)]

\* Basic(), run against the table cn.
Basic(cn) == Policy(BasicDirectives, cn)

\* BasicTight(), run against the table cn.
BasicTight(cn) == Policy(BasicTightDirectives, cn)

(***************************************************************************)
(* Inputs.                                                                 *)
(***************************************************************************)
\* All lists over T of length at most n.
Lists(T, n) == UNION {[1..k -> T] : k \in 0..n}

\* Tokens a caller puts in the []string fields of a Directives value: the
\* empty string, a bare keyword, and a padded plain token with a capital.
SliceTokens ==
    { EmptyString,
      <<"s", "e", "l", "f">>,
      <<" ", "A", "b", " ">> }

\* Values a caller gives the string fields, besides "": white space only,
\* a padded keyword in capitals, and a plain token.
StringTokens ==
    { <<" ">>,
      <<" ", "B", "L", "O", "C", "K">>,
      <<"j", "d", "@", "x">> }

RECURSIVE SumOver(_, _)
SumOver(S, f) ==
    IF S = {} THEN 0
    ELSE LET x == CHOOSE y \in S : TRUE IN f[x] + SumOver(S \ {x}, f)

\* What a Directives value counts against MaxTokens.
Cost(d) ==
    SumOver(DOMAIN d,
        [name \in DOMAIN d |->
            IF name \in StringFields
            THEN (IF d[name] = EmptyString THEN 0 ELSE 1)
            ELSE IF d[name].nil THEN 0
            ELSE IF d[name].arr = << >> THEN 1
            ELSE Len(d[name].arr)])

\* The letters of s in upper case.
ToUpper(s) ==
    [i \in 1..Len(s) |->
        IF \E j \in 1..Len(LowerLetters) : LowerLetters[j] = s[i]
        THEN UpperLetters[CHOOSE j \in 1..Len(LowerLetters) : LowerLetters[j] = s[i]]
        ELSE s[i]]

\* s with its first letter in upper case.
Capitalise(s) ==
    IF s = << >> THEN s ELSE ToUpper(<<s[1]>>) \o Tail(s)

\* A registry literal without its single quotes.
Bare(k) == SubSeq(k, 2, Len(k) - 1)

Quote(w) == <<"'">> \o w \o <<"'">>

KeywordWords == {Bare(sources[i]) : i \in 1..Len(sources)}

PlainWords ==
    { EmptyString,
      <<"*">>,
      <<"a", " ", "b">>,
      <<"s", "e", "l", "f", "i", "s", "h">>,
      <<"e", "x", "a", "m", "p", "l", "e", ".", "c", "o", "m", "/",
        "F", "o", "o", "B", "a", "r">> }

\* A word in each letter case, bare, quoted and with an opening quote only.
Variants(w) ==
    LET cases == {w, ToUpper(w), Capitalise(w)}
    IN  cases \cup {Quote(c) : c \in cases} \cup {<<"'">> \o c : c \in cases}

Pads == Lists({" ", "\t", "\n"}, MaxPad)

\* The strings handed to canon and to IsKeywordSource.
TokenInputs ==
    {l \o v \o r : l \in Pads, r \in Pads,
                   v \in UNION {Variants(w) : w \in KeywordWords \cup PlainWords}}

\* The lists handed to canons.
ListInputs == Lists(SliceTokens \cup {<<" ">>, <<"*">>}, MaxLen)

(***************************************************************************)
(* State.                                                                  *)
(***************************************************************************)
VARIABLES
    ds,        \* the caller's Directives value
    CName,     \* the package variable CName
    reordered, \* the caller has set a field declared before one it had set
    policy,    \* the string the last call of Policy returned
    written,   \* the clauses that call wrote to its builder, in order
    arg,       \* the argument of a call of canon, canons or IsKeywordSource
    ret,       \* the value canon or canons returned
    isKw,      \* the value IsKeywordSource returned
    pc,        \* where the caller is
    other,     \* a second Directives value, for concurrent calls
    calls,     \* the concurrent calls of Policy, one per goroutine
    builders   \* the strings.Builder of each concurrent call: its writes

vars ==
    <<ds, CName, reordered, policy, written, arg, ret, isKw, pc,
      other, calls, builders>>

\* The state of the concurrent calls.
concVars == <<other, calls, builders>>

\* The state of the sequential callers.
seqVars == <<reordered, policy, written, arg, ret, isKw, pc>>

\* The goroutines that call Policy concurrently.
Goroutines == {1, 2}

\* A goroutine that has not called Policy yet.
IdleCall ==
    [pc |-> "idle", of |-> "ds", d |-> ZeroDirectives, i |-> 1,
     ret |-> EmptyString, overlapped |-> FALSE]

\* No concurrent call is under way.
NoCalls ==
    /\ other = ZeroDirectives
    /\ calls = [g \in Goroutines |-> IdleCall]
    /\ builders = [g \in Goroutines |-> << >>]

\* A caller about to build a Directives value.
InitPolicy ==
    /\ ds = ZeroDirectives
    /\ pc = "build"
    /\ arg = EmptyString

\* A caller about to normalise or classify one token.
InitToken ==
    /\ ds = ZeroDirectives
    /\ pc = "token"
    /\ arg \in TokenInputs

\* A caller about to normalise a list of tokens.
InitList ==
    /\ ds = ZeroDirectives
    /\ pc = "list"
    /\ arg \in ListInputs

\* A caller about to ask for a preset.
InitPreset ==
    /\ ds = ZeroDirectives
    /\ pc = "preset"
    /\ arg = EmptyString

Init ==
    /\ CName = CNameTable
    /\ reordered = FALSE
    /\ policy = EmptyString
    /\ written = << >>
    /\ ret = EmptyString
    /\ isKw = FALSE
    /\ (InitPolicy \/ InitToken \/ InitList \/ InitPreset)
    /\ NoCalls

\* The position of a field in the declaration of Directives.
FieldIndex(name) == CHOOSE i \in 1..Len(FieldNames) : FieldNames[i] = name

\* The field is not at its zero value.
IsSet(d, name) ==
    IF name \in StringFields THEN d[name] # EmptyString ELSE ~d[name].nil

\* Setting field number i comes after setting a field declared later.
OutOfOrder(d, i) ==
    \E j \in (i + 1)..Len(FieldNames) : IsSet(d, FieldNames[j])

\* The caller appends a token to a []string field of its Directives value.
AppendToken ==
    /\ pc = "build"
    /\ Cost(ds) < MaxTokens
    /\ \E i \in 1..Len(FieldNames), v \in SliceTokens :
          /\ Kind(FieldNames[i]) = "Slice"
          /\ ds' = [ds EXCEPT ![FieldNames[i]] = SliceOf(Append(@.arr, v))]
          /\ reordered' = (reordered \/ OutOfOrder(ds, i))
    /\ UNCHANGED <<CName, policy, written, arg, ret, isKw, pc>>
    /\ UNCHANGED concVars

\* The caller sets a []string field to the empty, non-nil slice []string{}.
AssignEmptySlice ==
    /\ pc = "build"
    /\ Cost(ds) < MaxTokens
    /\ \E i \in 1..Len(FieldNames) :
          /\ Kind(FieldNames[i]) = "Slice"
          /\ ds[FieldNames[i]].nil
          /\ ds' = [ds EXCEPT ![FieldNames[i]] = SliceOf(<< >>)]
          /\ reordered' = (reordered \/ OutOfOrder(ds, i))
    /\ UNCHANGED <<CName, policy, written, arg, ret, isKw, pc>>
    /\ UNCHANGED concVars

\* The caller sets a string field of its Directives value.
AssignString ==
    /\ pc = "build"
    /\ Cost(ds) < MaxTokens
    /\ \E i \in 1..Len(FieldNames), v \in StringTokens :
          /\ Kind(FieldNames[i]) = "String"
          /\ ds[FieldNames[i]] = EmptyString
          /\ ds' = [ds EXCEPT ![FieldNames[i]] = v]
          /\ reordered' = (reordered \/ OutOfOrder(ds, i))
    /\ UNCHANGED <<CName, policy, written, arg, ret, isKw, pc>>
    /\ UNCHANGED concVars

\* policy := Policy(ds). The struct is passed by value, so of what the
\* call does to its parameter only the backing arrays reach the caller.
CallPolicy ==
    /\ pc = "build"
    /\ written' = PolicyLoop(ds, CName, 1)
    /\ policy' = PolicyReturn(written')
    /\ ds' = [name \in DOMAIN ds |->
                 IF name \in StringFields THEN ds[name]
                 ELSE [ds[name] EXCEPT !.arr = PolicyFieldArray(ds, FieldIndex(name))]]
    /\ pc' = "returned"
    /\ UNCHANGED <<CName, reordered, arg, ret, isKw>>
    /\ UNCHANGED concVars

\* ret := canon(arg)
CallCanon ==
    /\ pc = "token"
    /\ ret' = canon(arg)
    /\ pc' = "canon"
    /\ UNCHANGED <<ds, CName, reordered, policy, written, arg, isKw>>
    /\ UNCHANGED concVars

\* ret := canon(ret), the result of canon normalised once more.
CallCanonAgain ==
    /\ pc = "canon"
    /\ arg' = ret
    /\ ret' = canon(ret)
    /\ pc' = "recanon"
    /\ UNCHANGED <<ds, CName, reordered, policy, written, isKw>>
    /\ UNCHANGED concVars

\* isKw := IsKeywordSource(arg)
CallIsKeywordSource ==
    /\ pc = "token"
    /\ isKw' = IsKeywordSource(arg)
    /\ pc' = "iskw"
    /\ UNCHANGED <<ds, CName, reordered, policy, written, arg, ret>>
    /\ UNCHANGED concVars

\* ret := canons(arg); the argument's backing array is left as the call
\* leaves it.
CallCanons ==
    /\ pc = "list"
    /\ LET fr == canons(arg)
       IN  /\ ret' = fr.cs
           /\ arg' = fr.ss
    /\ pc' = "canons"
    /\ UNCHANGED <<ds, CName, reordered, policy, written, isKw>>
    /\ UNCHANGED concVars

\* policy := Basic()
CallBasic ==
    /\ pc \in {"preset", "basic", "basictight"}
    /\ policy' = Basic(CName)
    /\ pc' = "basic"
    /\ UNCHANGED <<ds, CName, reordered, written, arg, ret, isKw>>
    /\ UNCHANGED concVars

\* policy := BasicTight()
CallBasicTight ==
    /\ pc \in {"preset", "basic", "basictight"}
    /\ policy' = BasicTight(CName)
    /\ pc' = "basictight"
    /\ UNCHANGED <<ds, CName, reordered, written, arg, ret, isKw>>
    /\ UNCHANGED concVars

Next ==
    \/ AppendToken
    \/ AssignEmptySlice
    \/ AssignString
    \/ CallPolicy
    \/ CallCanon
    \/ CallCanonAgain
    \/ CallIsKeywordSource
    \/ CallCanons
    \/ CallBasic
    \/ CallBasicTight

Spec == Init /\ [][Next]_vars

(***************************************************************************)
(* Concurrent calls of Policy.                                             *)
(***************************************************************************)
\* Directives values handed to concurrent calls: one list of two tokens;
\* two lists and a scalar; a list of one empty token and a padded scalar
\* keyword; the literal of Basic.
ConcInputs ==
    { [ZeroDirectives EXCEPT
          !["DefaultSrc"] = SliceOf(<< <<"s", "e", "l", "f">>,
                                       <<" ", "A", "b", " ">> >>)],
      [ZeroDirectives EXCEPT
          !["DefaultSrc"] = SliceOf(<< <<"s", "e", "l", "f">> >>),
          !["StyleSrc"]   = SliceOf(<< <<"s", "e", "l", "f">>,
                                       <<" ", "A", "b", " ">> >>),
          !["ReportTo"]   = <<"j", "d", "@", "x">>],
      [ZeroDirectives EXCEPT
          !["BaseURI"] = SliceOf(<< EmptyString >>),
          !["WebRTC"]  = <<" ", "B", "L", "O", "C", "K">>],
      BasicDirectives }

\* The Directives value, in the callers' memory, that a call was given.
Mem(of) == IF of = "ds" THEN ds ELSE other

\* A builder shared by all the calls.
BuilderShared(g) == 1

\* The strings.Builder that `var policy strings.Builder` denotes in the
\* call of goroutine g: a local variable, one per call.
Builder(g) == g

\* The parameter of the call of goroutine g as an iteration sees it: the
\* struct copied at the call (scalars and slice headers), the backing
\* arrays being those of the callers' memory.
Param(g) ==
    [name \in DOMAIN calls[g].d |->
        IF name \in StringFields THEN calls[g].d[name]
        ELSE [calls[g].d[name] EXCEPT !.arr = Mem(calls[g].of)[name].arr]]

\* The callers' Directives value v after iteration i of a call given it.
AfterIteration(v, g, i) ==
    IF Kind(FieldNames[i]) = "Slice"
    THEN [v EXCEPT ![FieldNames[i]].arr = PolicyFieldArray(Param(g), i)]
    ELSE v

\* Some other goroutine is inside Policy.
OthersRunning(g) == \E h \in Goroutines \ {g} : calls[h].pc = "loop"

InitConc ==
    /\ CName = CNameTable
    /\ reordered = FALSE
    /\ policy = EmptyString
    /\ written = << >>
    /\ arg = EmptyString
    /\ ret = EmptyString
    /\ isKw = FALSE
    /\ pc = "conc"
    /\ ds \in ConcInputs
    /\ other \in ConcInputs
    /\ calls = [g \in Goroutines |-> IdleCall]
    /\ builders = [g \in Goroutines |-> << >>]

\* Goroutine g calls Policy on one of the two Directives values: the
\* struct is copied and the builder declared.
StartPolicy(g) ==
    /\ calls[g].pc = "idle"
    /\ \E of \in {"ds", "other"} :
          calls' = [calls EXCEPT ![g] =
                       [pc |-> "loop", of |-> of, d |-> Mem(of), i |-> 1,
                        ret |-> EmptyString, overlapped |-> OthersRunning(g)]]
    /\ builders' = [builders EXCEPT ![Builder(g)] = << >>]
    /\ UNCHANGED <<ds, CName, other>>
    /\ UNCHANGED seqVars

\* One iteration of the loop of Policy in goroutine g.
IteratePolicy(g) ==
    /\ calls[g].pc = "loop"
    /\ calls[g].i <= Len(FieldNames)
    /\ builders' = [builders EXCEPT ![Builder(g)] =
                       @ \o PolicyField(Param(g), CName, calls[g].i)]
    /\ ds' = IF calls[g].of = "ds"
             THEN AfterIteration(ds, g, calls[g].i) ELSE ds
    /\ other' = IF calls[g].of = "other"
                THEN AfterIteration(other, g, calls[g].i) ELSE other
    /\ calls' = [calls EXCEPT ![g].i = @ + 1,
                              ![g].overlapped = @ \/ OthersRunning(g)]
    /\ UNCHANGED CName
    /\ UNCHANGED seqVars

\* The loop of goroutine g is over: Policy returns.
ReturnPolicy(g) ==
    /\ calls[g].pc = "loop"
    /\ calls[g].i > Len(FieldNames)
    /\ calls' = [calls EXCEPT ![g].pc = "done",
                              ![g].ret = PolicyReturn(builders[Builder(g)])]
    /\ UNCHANGED <<ds, CName, other, builders>>
    /\ UNCHANGED seqVars

NextConc ==
    \E g \in Goroutines :
        \/ StartPolicy(g)
        \/ IteratePolicy(g)
        \/ ReturnPolicy(g)

SpecConc == InitConc /\ [][NextConc]_vars

(***************************************************************************)
(* Properties.                                                             *)
(***************************************************************************)
\* The 11 single-quoted keyword literals: 'none', 'self', 'unsafe-inline',
\* 'unsafe-eval', 'strict-dynamic', 'unsafe-hashes', 'report-sample',
\* 'unsafe-allow-redirects', 'wasm-unsafe-eval', 'allow', 'block'.
Registry ==
    { <<"'", "n", "o", "n", "e", "'">>,
      <<"'", "s", "e", "l", "f", "'">>,
      <<"'", "u", "n", "s", "a", "f", "e", "-", "i", "n", "l", "i", "n", "e", "'">>,
      <<"'", "u", "n", "s", "a", "f", "e", "-", "e", "v", "a", "l", "'">>,
      <<"'", "s", "t", "r", "i", "c", "t", "-", "d", "y", "n", "a", "m", "i", "c", "'">>,
      <<"'", "u", "n", "s", "a", "f", "e", "-", "h", "a", "s", "h", "e", "s", "'">>,
      <<"'", "r", "e", "p", "o", "r", "t", "-", "s", "a", "m", "p", "l", "e", "'">>,
      <<"'", "u", "n", "s", "a", "f", "e", "-", "a", "l", "l", "o", "w", "-", "r", "e", "d", "i", "r", "e", "c", "t", "s", "'">>,
      <<"'", "w", "a", "s", "m", "-", "u", "n", "s", "a", "f", "e", "-", "e", "v", "a", "l", "'">>,
      <<"'", "a", "l", "l", "o", "w", "'">>,
      <<"'", "b", "l", "o", "c", "k", "'">> }

\* The directive names in the order the clauses are to come out.
DeclaredOrder ==
    << <<"b", "a", "s", "e", "-", "u", "r", "i">>,
       <<"c", "h", "i", "l", "d", "-", "s", "r", "c">>,
       <<"c", "o", "n", "n", "e", "c", "t", "-", "s", "r", "c">>,
       <<"d", "e", "f", "a", "u", "l", "t", "-", "s", "r", "c">>,
       <<"f", "o", "n", "t", "-", "s", "r", "c">>,
       <<"f", "o", "r", "m", "-", "a", "c", "t", "i", "o", "n">>,
       <<"f", "r", "a", "m", "e", "-", "a", "n", "c", "e", "s", "t", "o", "r", "s">>,
       <<"f", "r", "a", "m", "e", "-", "s", "r", "c">>,
       <<"i", "m", "g", "-", "s", "r", "c">>,
       <<"m", "a", "n", "i", "f", "e", "s", "t", "-", "s", "r", "c">>,
       <<"m", "e", "d", "i", "a", "-", "s", "r", "c">>,
       <<"o", "b", "j", "e", "c", "t", "-", "s", "r", "c">>,
       <<"r", "e", "p", "o", "r", "t", "-", "t", "o">>,
       <<"s", "a", "n", "d", "b", "o", "x">>,
       <<"s", "c", "r", "i", "p", "t", "-", "s", "r", "c">>,
       <<"s", "c", "r", "i", "p", "t", "-", "s", "r", "c", "-", "a", "t", "t", "r">>,
       <<"s", "c", "r", "i", "p", "t", "-", "s", "r", "c", "-", "e", "l", "e", "m">>,
       <<"s", "t", "y", "l", "e", "-", "s", "r", "c">>,
       <<"s", "t", "y", "l", "e", "-", "s", "r", "c", "-", "a", "t", "t", "r">>,
       <<"s", "t", "y", "l", "e", "-", "s", "r", "c", "-", "e", "l", "e", "m">>,
       <<"w", "e", "b", "r", "t", "c">>,
       <<"w", "o", "r", "k", "e", "r", "-", "s", "r", "c">> >>

\* s consists of white space only (or is empty).
IsBlank(s) == \A i \in 1..Len(s) : IsSpace(s[i])

\* s with its leading and trailing white space removed, by position.
Core(s) ==
    IF IsBlank(s) THEN << >>
    ELSE LET first == CHOOSE i \in 1..Len(s) :
                         ~IsSpace(s[i]) /\ \A j \in 1..(i - 1) : IsSpace(s[j])
             last  == CHOOSE i \in 1..Len(s) :
                         ~IsSpace(s[i]) /\ \A j \in (i + 1)..Len(s) : IsSpace(s[j])
         IN  SubSeq(s, first, last)

\* p is a prefix of s.
IsPrefix(p, s) == Len(p) <= Len(s) /\ SubSeq(s, 1, Len(p)) = p

\* The positions of the character c in s.
Positions(s, c) == {i \in 1..Len(s) : s[i] = c}

RECURSIVE Segments(_, _)
\* The pieces of s that end in the character c, in order, each without
\* its c and without white space in front.
Segments(s, c) ==
    IF Positions(s, c) = {} THEN << >>
    ELSE LET k == CHOOSE i \in Positions(s, c) :
                     \A j \in Positions(s, c) : i <= j
         IN  <<TrimLeft(SubSeq(s, 1, k - 1))>>
                 \o Segments(SubSeq(s, k + 1, Len(s)), c)

\* The name of a clause: what stands before its first space.
NameOf(clause) ==
    IF Positions(clause, " ") = {} THEN clause
    ELSE SubSeq(clause, 1,
            (CHOOSE i \in Positions(clause, " ") :
                \A j \in Positions(clause, " ") : i <= j) - 1)

\* The value of a clause: what stands after its first space.
ValueOf(clause) == SubSeq(clause, Len(NameOf(clause)) + 2, Len(clause))

\* The clause names of a policy string, in order.
ClauseNames(p) ==
    LET segs == Segments(p, ";") IN [i \in 1..Len(segs) |-> NameOf(segs[i])]

\* The slot of a Directives value is empty: a list of length 0 (nil or
\* not), a scalar that is "" or white space only.
IsEmptySlot(d, name) ==
    IF name \in StringFields THEN IsBlank(d[name]) ELSE Len(d[name].arr) = 0

\* The field whose directive name is wire.
FieldOf(wire) == CHOOSE name \in DOMAIN CNameTable : CNameTable[name] = wire

\* C1: after Policy returns, a slot whose list is empty (nil or of length
\* 0) or whose scalar is "" or white space only has no clause in the
\* output: its directive name is the name of no clause of the string
\* returned, and of no clause written.
C1_EmptySlotOmitted ==
    pc = "returned" =>
        LET names == {ClauseNames(policy)[i] : i \in DOMAIN ClauseNames(policy)}
                        \cup {NameOf(written[i]) : i \in DOMAIN written}
        IN  \A name \in DOMAIN ds :
                IsEmptySlot(ds, name) => CNameTable[name] \notin names

\* Policy has returned for a Directives value with a white-space-only
\* scalar and an empty, non-nil list.
C1_Witness ==
    /\ pc = "returned"
    /\ \E name \in StringFields : ds[name] # << >> /\ IsBlank(ds[name])
    /\ \E name \in SliceFields : ~ds[name].nil /\ ds[name].arr = << >>

\* C2: the output of Policy has no clause `<name> ;` with an empty value:
\* every clause carries at least one non-empty token between the directive
\* name and the semicolon.
C2_NoEmptyValue ==
    pc = "returned" =>
        \A i \in DOMAIN Segments(policy, ";") :
            ~IsBlank(ValueOf(Segments(policy, ";")[i]))

\* Policy has returned "base-uri ;"-like output for a list whose only
\* tokens are empty: the input on which C2 is decided.
C2_Witness ==
    /\ pc = "returned"
    /\ \E name \in SliceFields :
          /\ ds[name].arr # << >>
          /\ \A i \in DOMAIN ds[name].arr : ds[name].arr[i] = EmptyString

\* C3: the directive names of the clauses of the string Policy returns are
\* exactly the declaration order (base-uri, child-src, ..., worker-src)
\* restricted to the non-empty slots, each once, whatever the order in
\* which the caller set the fields.
C3_ClauseOrder ==
    pc = "returned" =>
        ClauseNames(policy) =
            SelectSeq(DeclaredOrder, LAMBDA wire : ~IsEmptySlot(ds, FieldOf(wire)))

\* Policy has returned two clauses or more for a Directives value whose
\* fields the caller set against the declaration order.
C3_Witness ==
    /\ pc = "returned"
    /\ reordered
    /\ Len(written) >= 2

RECURSIVE Concat(_)
Concat(ws) == IF ws = << >> THEN << >> ELSE Head(ws) \o Concat(Tail(ws))

\* A clause has the form `<directive-name> <value>; ` with a non-empty
\* directive name of the table.
IsFramed(w) ==
    \E name \in DOMAIN CNameTable :
        /\ CNameTable[name] # << >>
        /\ IsPrefix(CNameTable[name] \o <<" ">>, w)
        /\ Len(w) >= Len(CNameTable[name]) + 3
        /\ SubSeq(w, Len(w) - 1, Len(w)) = <<";", " ">>

\* C4: Policy returns the clauses written, each of the form
\* `<directive-name> <value>; `, concatenated in order and without the
\* trailing white space: the output has no white space at either end, it
\* ends in ";" unless it is empty, and it is empty when every slot is.
C4_OutputFraming ==
    pc = "returned" =>
        /\ \A i \in DOMAIN written : IsFramed(written[i])
        /\ IF written = << >> THEN policy = << >>
           ELSE /\ Concat(written) = policy \o <<" ">>
                /\ ~IsSpace(policy[1])
                /\ policy[Len(policy)] = ";"
        /\ (\A name \in DOMAIN ds : IsEmptySlot(ds, name)) => policy = << >>

\* Policy has returned exactly two clauses.
C4_Witness ==
    /\ pc = "returned"
    /\ Len(written) = 2
    /\ policy # << >>

RECURSIVE IsSpaceJoined(_, _)
\* v is the tokens of toks, in order, with one space between neighbours.
IsSpaceJoined(v, toks) ==
    IF toks = << >> THEN v = << >>
    ELSE IF Len(toks) = 1 THEN v = toks[1]
    ELSE /\ IsPrefix(toks[1] \o <<" ">>, v)
         /\ IsSpaceJoined(SubSeq(v, Len(toks[1]) + 2, Len(v)), Tail(toks))

\* C5: canons(ss) has the length of ss and canon(ss[i]) at every i, and
\* the value of the clause Policy writes for a non-empty list is these
\* normalised tokens, in input order, joined by single spaces.
C5_TokenOrderAndCount ==
    /\ pc = "canons" =>
          /\ Len(ret) = Len(arg)
          /\ \A i \in 1..Len(arg) : ret[i] = canon(arg[i])
    /\ pc = "returned" =>
          \A name \in SliceFields :
              Len(ds[name].arr) > 0 =>
                  \E i \in DOMAIN written :
                      /\ IsPrefix(CNameTable[name] \o <<" ">>, written[i])
                      /\ IsSpaceJoined(
                            SubSeq(written[i], Len(CNameTable[name]) + 2,
                                   Len(written[i]) - 2),
                            [k \in 1..Len(ds[name].arr) |-> canon(ds[name].arr[k])])

\* Policy has returned for a list of two different tokens, one of them "".
C5_Witness ==
    /\ pc = "returned"
    /\ \E name \in SliceFields :
          /\ Len(ds[name].arr) = 2
          /\ ds[name].arr[1] # ds[name].arr[2]
          /\ \E i \in 1..2 : ds[name].arr[i] = EmptyString

\* C6: canon(canon(t)) = canon(t). In state "recanon" arg holds canon(t)
\* and ret holds canon(canon(t)).
C6_CanonIdempotent == pc = "recanon" => ret = arg

\* canon has been applied to its own result, the literal 'none'.
C6_Witness ==
    /\ pc = "recanon"
    /\ arg = <<"'", "n", "o", "n", "e", "'">>
    /\ ret = <<"'", "n", "o", "n", "e", "'">>

\* The word of a registry literal: the literal without its quotes.
WordOf(k) == SubSeq(k, 2, Len(k) - 1)

\* C7: for every registry literal 'k', canon of the bare word k, of k in
\* any letter case with surrounding white space, and of the quoted literal
\* 'k' is the lower-case quoted literal 'k'. (The argument, less its
\* surrounding white space, is the literal or its word in some case.)
C7_KeywordRoundTrip ==
    pc = "canon" =>
        LET core  == Core(arg)
            upper == ToUpper(core)
        IN  \A k \in Registry :
                (core = k \/ upper = ToUpper(WordOf(k))) => ret = k

\* canon has been applied to the word block in capitals with white space
\* around it.
C7_Witness ==
    /\ pc = "canon"
    /\ Core(arg) = <<"B", "L", "O", "C", "K">>
    /\ Len(arg) = Len(Core(arg)) + 2 * MaxPad
    /\ ret = <<"'", "b", "l", "o", "c", "k", "'">>

\* The trimmed, lower-cased, quoted form of s is a registry keyword.
IsKeywordToken(s) ==
    LET upper == ToUpper(Core(s))
    IN  \E k \in Registry : upper = ToUpper(WordOf(k))

\* C8: for a token that is no keyword in this sense, canon(t) is t with
\* only its leading and trailing white space removed.
C8_PlainTokenPreserved ==
    (pc = "canon" /\ ~IsKeywordToken(arg)) => ret = Core(arg)

\* canon has been applied to the padded plain token Selfish.
C8_Witness ==
    /\ pc = "canon"
    /\ Core(arg) = <<"S", "e", "l", "f", "i", "s", "h">>
    /\ Len(arg) > Len(Core(arg))
    /\ ret = Core(arg)

\* C9: IsKeywordSource(s) is true exactly when s is, character for
\* character, one of the 11 registry literals.
C9_IsKeywordSourceExact == pc = "iskw" => (isKw <=> arg \in Registry)

\* IsKeywordSource has been applied to a registry literal.
C9_Witness ==
    /\ pc = "iskw"
    /\ isKw
    /\ arg = <<"'", "b", "l", "o", "c", "k", "'">>

\* C10: a call of Policy leaves every list and scalar of the caller's
\* Directives value, the elements of the backing arrays included, and the
\* CName table as they were.
C10_PolicyPure ==
    [][(pc = "build" /\ pc' = "returned") => (ds' = ds /\ CName' = CName)]_vars

\* Policy has returned for a list with a token that canon changes.
C10_Witness ==
    /\ pc = "returned"
    /\ \E name \in SliceFields :
          \E i \in DOMAIN ds[name].arr : canon(ds[name].arr[i]) # ds[name].arr[i]

\* "default-src 'self'; form-action 'self'; frame-ancestors 'self';"
BasicWant ==
    << "d", "e", "f", "a", "u", "l", "t", "-", "s", "r", "c", " ",
       "'", "s", "e", "l", "f", "'", ";", " ", "f", "o", "r", "m",
       "-", "a", "c", "t", "i", "o", "n", " ", "'", "s", "e", "l",
       "f", "'", ";", " ", "f", "r", "a", "m", "e", "-", "a", "n",
       "c", "e", "s", "t", "o", "r", "s", " ", "'", "s", "e", "l",
       "f", "'", ";" >>

\* "connect-src 'self'; default-src 'none'; form-action 'self';
\*  frame-ancestors 'self'; img-src 'self'; script-src 'self';
\*  style-src 'self';"
BasicTightWant ==
    << "c", "o", "n", "n", "e", "c", "t", "-", "s", "r", "c", " ",
       "'", "s", "e", "l", "f", "'", ";", " ", "d", "e", "f", "a",
       "u", "l", "t", "-", "s", "r", "c", " ", "'", "n", "o", "n",
       "e", "'", ";", " ", "f", "o", "r", "m", "-", "a", "c", "t",
       "i", "o", "n", " ", "'", "s", "e", "l", "f", "'", ";", " ",
       "f", "r", "a", "m", "e", "-", "a", "n", "c", "e", "s", "t",
       "o", "r", "s", " ", "'", "s", "e", "l", "f", "'", ";", " ",
       "i", "m", "g", "-", "s", "r", "c", " ", "'", "s", "e", "l",
       "f", "'", ";", " ", "s", "c", "r", "i", "p", "t", "-", "s",
       "r", "c", " ", "'", "s", "e", "l", "f", "'", ";", " ", "s",
       "t", "y", "l", "e", "-", "s", "r", "c", " ", "'", "s", "e",
       "l", "f", "'", ";" >>

\* C12: every call of Basic() returns exactly
\* "default-src 'self'; form-action 'self'; frame-ancestors 'self';" and
\* every call of BasicTight() exactly "connect-src 'self'; default-src
\* 'none'; form-action 'self'; frame-ancestors 'self'; img-src 'self';
\* script-src 'self'; style-src 'self';".
C12_Presets ==
    /\ pc = "basic" => policy = BasicWant
    /\ pc = "basictight" => policy = BasicTightWant

\* BasicTight() has returned its seven clauses.
C12_Witness ==
    /\ pc = "basictight"
    /\ Len(Segments(policy, ";")) = 7

\* C11: in any interleaving of concurrent calls of Policy, on the same or
\* on different Directives values, no step of a call writes the callers'
\* Directives values or the CName table, and a call that has returned has
\* returned the string a lone call on the same contents returns.
C11_ConcurrentDeterminism ==
    /\ [](\A g \in Goroutines :
            calls[g].pc = "done" =>
                calls[g].ret = Policy(Mem(calls[g].of), CNameTable))
    /\ [][ds' = ds /\ other' = other /\ CName' = CName]_vars

\* Two calls on the same Directives value have both returned a non-empty
\* string, each having run while the other was inside Policy.
C11_Witness ==
    /\ \A g \in Goroutines :
          calls[g].pc = "done" /\ calls[g].overlapped /\ calls[g].ret # << >>
    /\ calls[1].of = calls[2].of

====
